---- MODULE Spec2Model ----
(***************************************************************************)
(* dpo_loss (src/dpo_loss.py): the Direct Preference Optimization loss.    *)
(*                                                                         *)
(* Numbers.  Tensor elements are decimal fixed-point numbers:              *)
(*   log-probabilities and beta    in tenths      (-1.1 is -11, 0.1 is 1)  *)
(*   log-ratios                    in tenths                               *)
(*   logits and rewards            in hundredths  (beta * log-ratio)       *)
(*   logsigmoid values and losses  in 1/Scale     (log 2 is 6931)          *)
(* Subtraction and the product by beta are exact on this grid. logsigmoid  *)
(* is computed the way the library computes it,                            *)
(*   min(x, 0) - log1p(exp(-|x|)),                                         *)
(* with exp and log1p evaluated in fixed point and rounded to 1/Scale, so  *)
(* exp(-|x|) underflows to 0 for large |x| as it does in floating point    *)
(* (float32 underflows at |x| >= 104, float64 at |x| >= 746; the rows the  *)
(* inputs are drawn from keep every positive logit either under 10 or over *)
(* 746, where fixed point and floating point agree on which losses are     *)
(* distinguishable: see TiesOnlyPastUnderflow).                            *)
(*                                                                         *)
(* Tensors are records [data, grad]: the elements, and the set of          *)
(* gradient-requiring leaf tensors the value is connected to through the   *)
(* autograd graph.                                                         *)
(***************************************************************************)
EXTENDS Integers, Sequences, FiniteSets, TLC

VARIABLES heap, initial, args, beta, pc,
          chosen_logratios, rejected_logratios, logits, losses,
          chosen_rewards, rejected_rewards, result

vars == <<heap, initial, args, beta, pc,
          chosen_logratios, rejected_logratios, logits, losses,
          chosen_rewards, rejected_rewards, result>>

locals == <<chosen_logratios, rejected_logratios, logits, losses,
            chosen_rewards, rejected_rewards>>

(* ------------------------------ bounds -------------------------------- *)

MaxLen == 2

(* --------------------------- fixed point ------------------------------ *)

Scale == 10000

DefaultBeta == 1

Inf == 2^30

IsFinite(v) == v > -Inf /\ v < Inf

Abs(x) == IF x < 0 THEN -x ELSE x

Min(x, y) == IF x < y THEN x ELSE y

Max(x, y) == IF x < y THEN y ELSE x

\* a / b rounded to nearest, for a >= 0 and b > 0
RDiv(a, b) == (2 * a + b) \div (2 * b)

\* exp(-k) * Scale for whole k
ExpInt == <<10000, 3679, 1353, 498, 183, 67, 25, 9, 3, 1>>

RECURSIVE ExpHorner(_, _, _)
ExpHorner(n, f, h) ==
    IF n = 0 THEN h ELSE ExpHorner(n - 1, f, Scale - RDiv(f * h, n * Scale))

\* exp(-r/100) * Scale for r in 0..99 (Taylor series, 8 terms)
ExpFrac(r) == ExpHorner(8, r * 100, Scale)

\* exp(-t/100) * Scale for t >= 0 in hundredths; 0 once it underflows
ExpNeg(t) ==
    LET k == t \div 100
        r == t % 100
    IN  IF k >= Len(ExpInt) THEN 0 ELSE RDiv(ExpInt[k + 1] * ExpFrac(r), Scale)

RECURSIVE LogHorner(_, _, _)
LogHorner(n, z2, p) ==
    IF n < 1 THEN p ELSE LogHorner(n - 2, z2, RDiv(Scale, n) + RDiv(z2 * p, Scale))

\* log(1 + u/Scale) * Scale for u in 0..Scale: 2 * atanh(u / (2 + u))
Log1p(u) ==
    LET z  == RDiv(u * Scale, 2 * Scale + u)
        z2 == RDiv(z * z, Scale)
    IN  RDiv(2 * z * LogHorner(9, z2, RDiv(Scale, 11)), Scale)

\* the naive form log(1 / (1 + exp(-x))): exp(-x) overflows to inf for
\* -x > 88.72, 1/(1 + inf) is 0 and log(0) is -inf
NaiveLogSigmoid(x) ==
    IF -x > 8872 THEN -Inf ELSE Min(x, 0) * 100 - Log1p(ExpNeg(Abs(x)))

\* log1p(exp(-|x|)) alone, the min(x, 0) term left out
LogSigmoidNoMin(x) == -Log1p(ExpNeg(Abs(x)))

\* F.logsigmoid on one element: x in hundredths, the result in 1/Scale
logsigmoid(x) == Min(x, 0) * 100 - Log1p(ExpNeg(Abs(x)))

(* ------------------------------ tensors ------------------------------- *)

None == [none |-> TRUE]

Tensor(d, g) == [data |-> d, grad |-> g]

Size(a) == Len(a.data)

\* torch broadcasting of two 1-D shapes
Broadcastable(m, n) == m = n \/ m = 1 \/ n = 1

BroadcastLen(m, n) == IF m = 1 THEN n ELSE m

\* element i of a, a stretched when it has one element
At(a, i) == IF Size(a) = 1 THEN a.data[1] ELSE a.data[i]

\* a - b that pairs the elements up to the shorter length
TensorSubTruncating(a, b) ==
    Tensor([i \in 1..Min(Size(a), Size(b)) |-> a.data[i] - b.data[i]],
           a.grad \cup b.grad)

\* a - b, elementwise with broadcasting; None when the shapes do not match
TensorSub(a, b) ==
    IF Broadcastable(Size(a), Size(b))
    THEN Tensor([i \in 1..BroadcastLen(Size(a), Size(b)) |-> At(a, i) - At(b, i)],
                a.grad \cup b.grad)
    ELSE None

\* s * a for a Python scalar s
ScalarMul(s, a) == Tensor([i \in 1..Size(a) |-> s * a.data[i]], a.grad)

TensorNeg(a) == Tensor([i \in 1..Size(a) |-> -a.data[i]], a.grad)

LogSigmoid(a) == Tensor([i \in 1..Size(a) |-> logsigmoid(a.data[i])], a.grad)

\* the log-ratios used without .detach()
DetachKeepsGraph(a) == a

\* a.detach(): the same data, cut from the autograd graph
Detach(a) == Tensor(a.data, {})

RECURSIVE SeqSum(_)
SeqSum(s) == IF s = <<>> THEN 0 ELSE Head(s) + SeqSum(Tail(s))

(* --------------------------- the statements --------------------------- *)

\* lines 25 and 26: policy_logps - reference_logps
LogRatios(policy, ref) == TensorSub(policy, ref)

\* beta * chosen_logratios - rejected_logratios (the parentheses dropped);
\* the log-ratio is in tenths, hence the 10
LogitsNoParens(b, c, r) ==
    IF Broadcastable(Size(c), Size(r))
    THEN Tensor([i \in 1..BroadcastLen(Size(c), Size(r)) |->
                    b * At(c, i) - 10 * At(r, i)],
                c.grad \cup r.grad)
    ELSE None

\* beta * (chosen_logratios + rejected_logratios)
LogitsSum(b, c, r) ==
    LET d == TensorSub(c, TensorNeg(r))
    IN  IF d = None THEN None ELSE ScalarMul(b, d)

\* line 30: beta * (chosen_logratios - rejected_logratios)
Logits(b, c, r) ==
    LET d == TensorSub(c, r)
    IN  IF d = None THEN None ELSE ScalarMul(b, d)

\* F.logsigmoid(logits), the sign dropped
LossesNotNegated(x) == LogSigmoid(x)

\* (-F.logsigmoid(logits)).mean(): the batch reduced to one number
LossesMean(x) ==
    Tensor(<<SeqSum(TensorNeg(LogSigmoid(x)).data) \div Max(1, Size(x))>>, x.grad)

\* line 31: -F.logsigmoid(logits)
Losses(x) == TensorNeg(LogSigmoid(x))

\* logratios.detach() without the factor beta (a log-ratio is in tenths)
RewardsUnscaled(b, lr) == ScalarMul(10, Detach(lr))

\* lines 34 and 35: beta * logratios.detach()
Rewards(b, lr) == ScalarMul(b, Detach(lr))

Raised == [raised |-> TRUE]

Returned(l, c, r) == [losses |-> l, chosen_rewards |-> c, rejected_rewards |-> r]

\* lines 4-37 run without interruption: the returned triple, or Raised
dpo_loss(policy_chosen, policy_rejected, ref_chosen, ref_rejected, b) ==
    LET c == LogRatios(policy_chosen, ref_chosen)
        r == LogRatios(policy_rejected, ref_rejected)
    IN  IF c = None \/ r = None THEN Raised
        ELSE LET x == Logits(b, c, r)
             IN  IF x = None THEN Raised
                 ELSE Returned(Losses(x), Rewards(b, c), Rewards(b, r))

(* ------------------------------- state -------------------------------- *)
(* heap     the caller's four tensors, as in the __main__ block            *)
(* initial  the heap as it was when the calls were made                    *)
(* args     each call's parameters: which heap tensor is bound to which    *)
(* beta     each call's beta                                               *)
(* pc       each call's position: the line it executes next                *)
(* the six locals of each call; result: what the call returned             *)

Objects == {"p_chosen", "p_rejected", "r_chosen", "r_rejected"}

Calls == {1, 2}

\* the batch rows the inputs are drawn from, in tenths:
\* <<p_chosen, p_rejected, r_chosen, r_rejected>>
Rows ==
    << <<-10, -20, -11, -21>>,        \* __main__, first example
       <<-5, -15, -6, -16>>,          \* __main__, second example
       <<-10005, -15, -5, -15>>,      \* chosen log-ratio -1000.0
       <<-5, -15, -100005, -15>>,     \* chosen log-ratio +10000.0
       <<-5, -15, -120005, -15>> >>   \* chosen log-ratio +12000.0

Column(o) ==
    CASE o = "p_chosen" -> 1 [] o = "p_rejected" -> 2
      [] o = "r_chosen" -> 3 [] o = "r_rejected" -> 4

\* beta = -1.0, 0, 0.1 (the default) and 0.5: no sign or range is enforced
BetaVals == {-10, 0, DefaultBeta, 5}

\* the call dpo_loss(p_chosen, p_rejected, r_chosen, r_rejected, ...)
Positional ==
    [policy_chosen_logps |-> "p_chosen", policy_rejected_logps |-> "p_rejected",
     ref_chosen_logps |-> "r_chosen", ref_rejected_logps |-> "r_rejected"]

\* the call dpo_loss(p_rejected, p_chosen, r_rejected, r_chosen, ...)
Swapped ==
    [policy_chosen_logps |-> "p_rejected", policy_rejected_logps |-> "p_chosen",
     ref_chosen_logps |-> "r_rejected", ref_rejected_logps |-> "r_chosen"]

\* the heap with tensor o holding the first lens[o] of the chosen rows and
\* requiring a gradient when o is in tracked
HeapOf(lens, rows, tracked) ==
    [o \in Objects |->
        Tensor([i \in 1..lens[o] |-> Rows[rows[i]][Column(o)]],
               IF o \in tracked THEN {o} ELSE {})]

NoLocals ==
    /\ chosen_logratios = [t \in Calls |-> None]
    /\ rejected_logratios = [t \in Calls |-> None]
    /\ logits = [t \in Calls |-> None]
    /\ losses = [t \in Calls |-> None]
    /\ chosen_rewards = [t \in Calls |-> None]
    /\ rejected_rewards = [t \in Calls |-> None]
    /\ result = [t \in Calls |-> None]

\* one call; any lengths, any rows, any beta; the policy's log-probabilities
\* require gradients, the reference's do not
Init ==
    /\ \E lens \in [Objects -> 0..MaxLen], rows \in [1..MaxLen -> 1..Len(Rows)] :
          heap = HeapOf(lens, rows, {"p_chosen", "p_rejected"})
    /\ initial = heap
    /\ args = [t \in Calls |-> Positional]
    /\ \E b \in BetaVals : beta = [t \in Calls |-> b]
    /\ pc = [t \in Calls |-> IF t = 1 THEN "l25" ELSE "idle"]
    /\ NoLocals

\* one call on a batch of any length, any of the four inputs requiring gradients
InitGrad ==
    /\ \E n \in 0..MaxLen, rows \in [1..MaxLen -> {1, 3}], tracked \in SUBSET Objects :
          heap = HeapOf([o \in Objects |-> n], rows, tracked)
    /\ initial = heap
    /\ args = [t \in Calls |-> Positional]
    /\ \E b \in BetaVals : beta = [t \in Calls |-> b]
    /\ pc = [t \in Calls |-> IF t = 1 THEN "l25" ELSE "idle"]
    /\ NoLocals

\* two concurrent calls on the same four tensors, the second with its own
\* beta and either argument order
InitConc ==
    /\ \E lens \in [Objects -> {0, 1, MaxLen}], rows \in [1..MaxLen -> {1, 3}] :
          heap = HeapOf(lens, rows, {"p_chosen", "p_rejected"})
    /\ initial = heap
    /\ \E a \in {Positional, Swapped} : args = [t \in Calls |-> IF t = 1 THEN Positional ELSE a]
    /\ \E b \in {DefaultBeta, 5} : beta = [t \in Calls |-> IF t = 1 THEN DefaultBeta ELSE b]
    /\ pc = [t \in Calls |-> "l25"]
    /\ NoLocals

Arg(t, name) == heap[args[t][name]]

\* an exception leaves the function: nothing is returned
Raise(t) ==
    /\ pc' = [pc EXCEPT ![t] = "raised"]
    /\ result' = [result EXCEPT ![t] = Raised]

(* ------------------------------ actions ------------------------------- *)

\* policy_chosen_logps -= ref_chosen_logps; chosen_logratios = policy_chosen_logps
Line25InPlace(t) ==
    /\ pc[t] = "l25"
    /\ LET v == LogRatios(Arg(t, "policy_chosen_logps"), Arg(t, "ref_chosen_logps"))
       IN  IF v = None
           THEN /\ Raise(t)
                /\ UNCHANGED <<heap, chosen_logratios>>
           ELSE /\ heap' = [heap EXCEPT ![args[t].policy_chosen_logps] = v]
                /\ chosen_logratios' = [chosen_logratios EXCEPT ![t] = v]
                /\ pc' = [pc EXCEPT ![t] = "l26"]
                /\ UNCHANGED result
    /\ UNCHANGED <<initial, args, beta, rejected_logratios, logits, losses,
                   chosen_rewards, rejected_rewards>>

\* line 25: chosen_logratios = policy_chosen_logps - ref_chosen_logps
Line25(t) ==
    /\ pc[t] = "l25"
    /\ LET v == LogRatios(Arg(t, "policy_chosen_logps"), Arg(t, "ref_chosen_logps"))
       IN  IF v = None
           THEN /\ Raise(t)
                /\ UNCHANGED chosen_logratios
           ELSE /\ chosen_logratios' = [chosen_logratios EXCEPT ![t] = v]
                /\ pc' = [pc EXCEPT ![t] = "l26"]
                /\ UNCHANGED result
    /\ UNCHANGED <<heap, initial, args, beta, rejected_logratios, logits, losses,
                   chosen_rewards, rejected_rewards>>

\* line 26: rejected_logratios = policy_rejected_logps - ref_rejected_logps
Line26(t) ==
    /\ pc[t] = "l26"
    /\ LET v == LogRatios(Arg(t, "policy_rejected_logps"), Arg(t, "ref_rejected_logps"))
       IN  IF v = None
           THEN /\ Raise(t)
                /\ UNCHANGED rejected_logratios
           ELSE /\ rejected_logratios' = [rejected_logratios EXCEPT ![t] = v]
                /\ pc' = [pc EXCEPT ![t] = "l30"]
                /\ UNCHANGED result
    /\ UNCHANGED <<heap, initial, args, beta, chosen_logratios, logits, losses,
                   chosen_rewards, rejected_rewards>>

\* line 30: logits = beta * (chosen_logratios - rejected_logratios)
Line30(t) ==
    /\ pc[t] = "l30"
    /\ LET v == Logits(beta[t], chosen_logratios[t], rejected_logratios[t])
       IN  IF v = None
           THEN /\ Raise(t)
                /\ UNCHANGED logits
           ELSE /\ logits' = [logits EXCEPT ![t] = v]
                /\ pc' = [pc EXCEPT ![t] = "l31"]
                /\ UNCHANGED result
    /\ UNCHANGED <<heap, initial, args, beta, chosen_logratios, rejected_logratios,
                   losses, chosen_rewards, rejected_rewards>>

\* line 31: losses = -F.logsigmoid(logits)
Line31(t) ==
    /\ pc[t] = "l31"
    /\ losses' = [losses EXCEPT ![t] = Losses(logits[t])]
    /\ pc' = [pc EXCEPT ![t] = "l34"]
    /\ UNCHANGED <<heap, initial, args, beta, chosen_logratios, rejected_logratios,
                   logits, chosen_rewards, rejected_rewards, result>>

\* line 34: chosen_rewards = beta * chosen_logratios.detach()
Line34(t) ==
    /\ pc[t] = "l34"
    /\ chosen_rewards' = [chosen_rewards EXCEPT ![t] = Rewards(beta[t], chosen_logratios[t])]
    /\ pc' = [pc EXCEPT ![t] = "l35"]
    /\ UNCHANGED <<heap, initial, args, beta, chosen_logratios, rejected_logratios,
                   logits, losses, rejected_rewards, result>>

\* line 35: rejected_rewards = beta * rejected_logratios.detach()
Line35(t) ==
    /\ pc[t] = "l35"
    /\ rejected_rewards' = [rejected_rewards EXCEPT ![t] = Rewards(beta[t], rejected_logratios[t])]
    /\ pc' = [pc EXCEPT ![t] = "l37"]
    /\ UNCHANGED <<heap, initial, args, beta, chosen_logratios, rejected_logratios,
                   logits, losses, chosen_rewards, result>>

\* line 37: return losses, chosen_rewards, rejected_rewards
Line37(t) ==
    /\ pc[t] = "l37"
    /\ result' = [result EXCEPT ![t] = Returned(losses[t], chosen_rewards[t], rejected_rewards[t])]
    /\ pc' = [pc EXCEPT ![t] = "done"]
    /\ UNCHANGED <<heap, initial, args, beta, locals>>

Next ==
    \E t \in Calls :
        \/ Line25(t)
        \/ Line26(t)
        \/ Line30(t)
        \/ Line31(t)
        \/ Line34(t)
        \/ Line35(t)
        \/ Line37(t)

Spec == Init /\ [][Next]_vars

SpecGrad == InitGrad /\ [][Next]_vars

SpecConc == InitConc /\ [][Next]_vars

(* ----------------------------- properties ----------------------------- *)

\* the elements call t was given for parameter name
In(t, name) == initial[args[t][name]].data

Params == {"policy_chosen_logps", "policy_rejected_logps",
           "ref_chosen_logps", "ref_rejected_logps"}

\* the four inputs of call t have one length
EqualLengths(t) == \A p, q \in Params : Len(In(t, p)) = Len(In(t, q))

BatchSize(t) == Len(In(t, "policy_chosen_logps"))

\* every two of the four input lengths are equal, or one of the two is 1
Compatible(t) ==
    \A p, q \in Params :
        Len(In(t, p)) = Len(In(t, q)) \/ Len(In(t, p)) = 1 \/ Len(In(t, q)) = 1

\* the length the inputs are broadcast to
CommonLen(t) ==
    IF \A p \in Params : Len(In(t, p)) = 1 THEN 1
    ELSE Len(In(t, CHOOSE p \in Params : Len(In(t, p)) # 1))

\* -log(sigmoid(beta * ((pc - rc) - (pr - rr)))) for one example
LossAt(b, pcv, prv, rcv, rrv) == -logsigmoid(b * ((pcv - rcv) - (prv - rrv)))

\* log 2 = 0.6931 at the resolution of the losses
LogTwo == RDiv(6931 * Scale, 10000)

\* exp(-x) is exactly 0 from x = 104 on in float32 and from x = 746 on in
\* float64 (in hundredths)
ExpUnderflow == 746 * 100

\* C1: with four inputs of one length N, losses has N elements and
\* losses[i] = -log(sigmoid(beta * ((policy_chosen[i] - ref_chosen[i]) -
\* (policy_rejected[i] - ref_rejected[i])))): a function of the inputs'
\* elements at index i alone.
C1_LossPerIndex ==
    \A t \in Calls :
        (pc[t] = "done" /\ EqualLengths(t)) =>
            /\ Size(result[t].losses) = BatchSize(t)
            /\ \A i \in 1..BatchSize(t) :
                  result[t].losses.data[i] =
                      LossAt(beta[t], In(t, "policy_chosen_logps")[i],
                             In(t, "policy_rejected_logps")[i],
                             In(t, "ref_chosen_logps")[i],
                             In(t, "ref_rejected_logps")[i])

\* a call on two examples has returned two different losses
C1_Witness ==
    \E t \in Calls :
        /\ pc[t] = "done" /\ EqualLengths(t) /\ BatchSize(t) = 2
        /\ beta[t] # 0
        /\ result[t].losses.data[1] # result[t].losses.data[2]

\* C2: with four inputs of one length, chosen_rewards[i] =
\* beta * (policy_chosen[i] - ref_chosen[i]) and rejected_rewards[i] =
\* beta * (policy_rejected[i] - ref_rejected[i]); neither reads the other
\* response's log-probabilities.
C2_Rewards ==
    \A t \in Calls :
        (pc[t] = "done" /\ EqualLengths(t)) =>
            /\ Size(result[t].chosen_rewards) = BatchSize(t)
            /\ Size(result[t].rejected_rewards) = BatchSize(t)
            /\ \A i \in 1..BatchSize(t) :
                  /\ result[t].chosen_rewards.data[i] =
                        beta[t] * (In(t, "policy_chosen_logps")[i]
                                   - In(t, "ref_chosen_logps")[i])
                  /\ result[t].rejected_rewards.data[i] =
                        beta[t] * (In(t, "policy_rejected_logps")[i]
                                   - In(t, "ref_rejected_logps")[i])

\* a call has returned a chosen reward and a rejected reward that differ
C2_Witness ==
    \E t \in Calls :
        /\ pc[t] = "done" /\ EqualLengths(t) /\ BatchSize(t) >= 1
        /\ result[t].chosen_rewards.data[1] # 0
        /\ result[t].chosen_rewards.data[1] # result[t].rejected_rewards.data[1]

C4_OutputLengths ==
    \A t \in Calls :
        EqualLengths(t) =>
            /\ pc[t] # "raised"
            /\ pc[t] = "done" =>
                  /\ Size(result[t].losses) = BatchSize(t)
                  /\ Size(result[t].chosen_rewards) = BatchSize(t)
                  /\ Size(result[t].rejected_rewards) = BatchSize(t)

\* a call on the empty batch has returned three empty sequences
C4_Witness ==
    \E t \in Calls :
        /\ pc[t] = "done" /\ EqualLengths(t) /\ BatchSize(t) = 0
        /\ result[t].losses.data = <<>>
        /\ result[t].chosen_rewards.data = <<>>

\* C5: every element of the returned losses is >= 0.
C5_LossNonNegative ==
    \A t \in Calls :
        pc[t] = "done" =>
            \A i \in 1..Size(result[t].losses) : result[t].losses.data[i] >= 0

\* a call has returned a loss of exactly 0 and a positive one
C5_Witness ==
    \E t \in Calls :
        /\ pc[t] = "done" /\ EqualLengths(t) /\ BatchSize(t) = 2
        /\ result[t].losses.data[1] = 0
        /\ result[t].losses.data[2] > 0

\* the four tensors of the __main__ block
SmokeTest(t) ==
    /\ In(t, "policy_chosen_logps") = <<-10, -5>>
    /\ In(t, "policy_rejected_logps") = <<-20, -15>>
    /\ In(t, "ref_chosen_logps") = <<-11, -6>>
    /\ In(t, "ref_rejected_logps") = <<-21, -16>>

\* C6: where the chosen log-ratio equals the rejected log-ratio at index i,
\* losses[i] = log 2 whatever beta is; and on the inputs of the __main__
\* block with beta = 0.1 the losses are [log 2, log 2] and both reward
\* vectors are [0.01, 0.01].
C6_ZeroLogitLogTwo ==
    \A t \in Calls :
        (pc[t] = "done" /\ EqualLengths(t)) =>
            /\ \A i \in 1..BatchSize(t) :
                  (In(t, "policy_chosen_logps")[i] - In(t, "ref_chosen_logps")[i]
                     = In(t, "policy_rejected_logps")[i] - In(t, "ref_rejected_logps")[i])
                  => result[t].losses.data[i] = LogTwo
            /\ (SmokeTest(t) /\ beta[t] = DefaultBeta) =>
                  /\ result[t].losses.data = <<LogTwo, LogTwo>>
                  /\ result[t].chosen_rewards.data = <<1, 1>>
                  /\ result[t].rejected_rewards.data = <<1, 1>>

\* the call of the __main__ block has returned
C6_Witness ==
    \E t \in Calls :
        /\ pc[t] = "done" /\ SmokeTest(t) /\ beta[t] = DefaultBeta
        /\ result[t].losses.data = <<LogTwo, LogTwo>>

\* C7 as stated: of two examples of a call on equal-length inputs with
\* logits a < b, the loss at a is strictly greater than the loss at b.
C7_StrictlyDecreasing ==
    \A t \in Calls :
        (pc[t] = "done" /\ EqualLengths(t)) =>
            \A i, j \in 1..Size(logits[t]) :
                logits[t].data[i] < logits[t].data[j]
                => result[t].losses.data[i] > result[t].losses.data[j]

\* C7 as amended: of two examples with logits a < b, the loss at a is
\* greater than or equal to the loss at b.
C7_NonIncreasing ==
    \A t \in Calls :
        pc[t] = "done" =>
            \A i, j \in 1..Size(logits[t]) :
                logits[t].data[i] < logits[t].data[j]
                => result[t].losses.data[i] >= result[t].losses.data[j]

\* a call has returned a larger loss for the smaller of two logits
C7_Witness ==
    \E t \in Calls :
        /\ pc[t] = "done" /\ Size(logits[t]) = 2
        /\ logits[t].data[1] < logits[t].data[2]
        /\ result[t].losses.data[1] > result[t].losses.data[2]

\* On the inputs of this model two different logits get the same loss only
\* when both are past the point where exp(-x) is 0 in floating point as well.
TiesOnlyPastUnderflow ==
    \A t \in Calls :
        pc[t] = "done" =>
            \A i, j \in 1..Size(logits[t]) :
                (logits[t].data[i] < logits[t].data[j]
                 /\ result[t].losses.data[i] = result[t].losses.data[j])
                => logits[t].data[i] >= ExpUnderflow

\* C8: every returned loss is finite and lies between max(-x, 0) and
\* max(-x, 0) + log 2 for its logit x, and for |x| >= 50 it is max(-x, 0)
\* to within the resolution (100 for x = -100).
C8_FiniteAndAccurate ==
    \A t \in Calls :
        pc[t] = "done" =>
            \A i \in 1..Size(logits[t]) :
                /\ IsFinite(result[t].losses.data[i])
                /\ result[t].losses.data[i] >= Max(-logits[t].data[i], 0) * 100
                /\ result[t].losses.data[i] <= Max(-logits[t].data[i], 0) * 100 + LogTwo
                /\ Abs(logits[t].data[i]) >= 50 * 100 =>
                      Abs(result[t].losses.data[i]
                          - Max(-logits[t].data[i], 0) * 100) <= 1

\* a call has returned the loss 100 for the logit -100
C8_Witness ==
    \E t \in Calls :
        /\ pc[t] = "done"
        /\ \E i \in 1..Size(logits[t]) :
              /\ logits[t].data[i] = -100 * 100
              /\ result[t].losses.data[i] = 100 * Scale

\* C9: the four input tensors are never changed, and every call that has
\* ended, however it was interleaved with the other, holds exactly what
\* dpo_loss gives for its own arguments when run alone.
C9_Pure ==
    /\ heap = initial
    /\ \A t \in Calls :
          pc[t] \in {"done", "raised"} =>
              result[t] = dpo_loss(initial[args[t].policy_chosen_logps],
                                   initial[args[t].policy_rejected_logps],
                                   initial[args[t].ref_chosen_logps],
                                   initial[args[t].ref_rejected_logps], beta[t])

\* two concurrent calls on the same tensors have returned different outputs
C9_Witness ==
    /\ pc[1] = "done" /\ pc[2] = "done"
    /\ result[1] # result[2]
    /\ Size(result[1].losses) >= 1

\* C10: the returned losses are connected to every gradient-requiring policy
\* input, and the two reward vectors are connected to no input.
C10_GradientTracking ==
    \A t \in Calls :
        pc[t] = "done" =>
            /\ initial[args[t].policy_chosen_logps].grad \subseteq result[t].losses.grad
            /\ initial[args[t].policy_rejected_logps].grad \subseteq result[t].losses.grad
            /\ result[t].chosen_rewards.grad = {}
            /\ result[t].rejected_rewards.grad = {}

\* a call whose four inputs all require gradients has returned losses
\* connected to both policy inputs
C10_Witness ==
    \E t \in Calls :
        /\ pc[t] = "done"
        /\ \A o \in Objects : initial[o].grad = {o}
        /\ {"p_chosen", "p_rejected"} \subseteq result[t].losses.grad

====
